---- MODULE Spec2Model ----
(***************************************************************************)
(* A model of the nthscraper session (NthScraper), its element handles     *)
(* (NthScraperElement) and the throttled transport (RequestsWrapper).      *)
(*                                                                         *)
(* Python values are modelled as records with a "kind" field; None is      *)
(* NoneVal.  An Optional[int] argument is the empty sequence (absent) or a *)
(* one-element sequence.  Every fetch / load call gets a fresh number      *)
(* (calls), which is the identity of the response object and of the tree   *)
(* parsed from it.                                                         *)
(***************************************************************************)
EXTENDS Naturals, Sequences, FiniteSets

VARIABLES
    response,   \* NthScraper.response
    doc,        \* NthScraper.doc
    calls,      \* number of get / post / get_from_local calls made so far
    localOpen,  \* requests sessions opened by get_from_local and not closed
    result,     \* what the last operation was given, did and returned
    attr        \* the last get_attribute("innerText", ...) call (SpecText)

vars == <<response, doc, calls, localOpen, result, attr>>

(***************************************************************************)
(* Bounds of the model.                                                    *)
(***************************************************************************)
MaxCalls == 2
MaxSleep == 1
MaxTextLen == 3
MaxFilters == 2

(***************************************************************************)
(* Program constants.                                                      *)
(***************************************************************************)
SessionSleepLo == 1
SessionSleepHi == 5
WrapperSleepLo == 1
WrapperSleepStop == 4

NoneVal == [kind |-> "None"]

(***************************************************************************)
(* Response bodies and the parser (lxml.html.fromstring).                  *)
(*   EmptyBody  no bytes: falsy, never handed to the parser                *)
(*   BlankBody  white space only: the parser raises ParserError            *)
(*   LeafBody   a fragment: the parser returns the <p> element itself,     *)
(*              which has no children                                      *)
(*   PageBody   a full page: the parser returns the <html> element         *)
(* PageBody builds html > body > (p#x, p); LeafBody builds html > body >   *)
(* p#x, the first three of the same nodes.                                 *)
(***************************************************************************)
EmptyBody == ""
BlankBody == " "
LeafBody == "<p id=\"x\">Hi</p>"
PageBody == "<html><body><p id=\"x\">Hi</p><p>Yo</p></body></html>"

Bodies == {EmptyBody, BlankBody, LeafBody, PageBody}
ParseableBodies == {LeafBody, PageBody}

NodeTag == <<"html", "body", "p", "p">>
NodeParent == <<0, 1, 2, 2>>
NodeAttrs == <<{}, {}, {"id=x"}, {}>>
NodeClasses == <<{}, {}, {}, {}>>
NodeOrder == <<1, 2, 3, 4>>

\* The nodes a body builds, as indices into the tables above.
NodesOf(body) == IF body = PageBody THEN {1, 2, 3, 4} ELSE {1, 2, 3}

Tree(id, body) == [kind |-> "Tree", id |-> id, body |-> body]

\* html.fromstring(content): the element it returns, or ParserError.
fromstring(id, content) ==
    IF content \in ParseableBodies
    THEN [raised |-> "None", tree |-> Tree(id, content)]
    ELSE [raised |-> "ParserError", tree |-> NoneVal]

\* The index of the element fromstring returned for this tree.
RootOf(tree) == IF tree.body = PageBody THEN 1 ELSE 3

ChildrenOf(body, i) == {j \in NodesOf(body) : NodeParent[j] = i}

\* len(doc): the number of child elements of the root element.
LenOf(tree) == Cardinality(ChildrenOf(tree.body, RootOf(tree)))

\* bool(doc) as Python evaluates "doc if doc else self.doc": None is falsy,
\* and an lxml element is falsy when it has no children.
Truthy(d) == d # NoneVal /\ LenOf(d) # 0

Optional(S) == {<<>>} \cup {<<x>> : x \in S}

(***************************************************************************)
(* The transport.  An outcome is what the network does with one request:   *)
(* a response with a status code and a body, or no response at all.        *)
(***************************************************************************)
Outcome(kind, status, body) == [kind |-> kind, status |-> status, body |-> body]

\* The status codes tried: success, two that are neither success nor an
\* error (not modified, and a redirect that is not followed), a client error
\* and a server error.
Statuses == {200, 301, 304, 404, 500}

\* The bodies tried with a status.
BodiesFor(status) ==
    CASE status = 200 -> Bodies
      [] status = 304 -> {EmptyBody, PageBody}
      [] OTHER -> {EmptyBody}

TransportOutcomes ==
    {o \in {Outcome("response", st, b) : st \in Statuses, b \in Bodies} :
        o.body \in BodiesFor(o.status)}
        \cup {Outcome("conn_error", 0, EmptyBody)}

\* What the file adapter does with one local read.
LocalOutcomes ==
    {Outcome("response", 200, b) : b \in Bodies} \cup {Outcome("read_error", 0, EmptyBody)}

\* resp.raise_for_status(): raises for a 4xx or 5xx status, for no other.
RaisesForStatus(status) == 400 <= status /\ status < 600

\* The exception RequestsWrapper.request ends in on this outcome.
FailureOf(outcome) ==
    CASE outcome.kind = "response" /\ RaisesForStatus(outcome.status) -> "HTTPError"
      [] outcome.kind = "conn_error" -> "ConnectionError"
      [] outcome.kind = "read_error" -> "OSError"
      [] OTHER -> "None"

SleepEvent(secs) == [ev |-> "sleep", secs |-> secs, method |-> ""]
NetEvent(method) == [ev |-> "network", secs |-> 0, method |-> method]

\* kwargs.pop("sleep_seconds", default): the keyword when present.
PopSleep(kw, default) == IF kw # <<>> THEN kw[1] ELSE default

\* RequestsWrapper.request: pop the delay, sleep, issue the request, raise
\* what session.request or resp.raise_for_status() raises.
request(method, sleepKw, default, outcome) ==
    LET sleep_seconds == PopSleep(sleepKw, default)
    IN  [raised |-> FailureOf(outcome),
         status |-> outcome.status,
         body |-> outcome.body,
         events |-> <<SleepEvent(sleep_seconds), NetEvent(method)>>]

Response(id, status, body, closed) ==
    [kind |-> "Response", call |-> id, status |-> status, body |-> body,
     closed |-> closed]

\* "sleep_seconds if sleep_seconds else random.randint(1, 5)": a delay of 0
\* is taken for an absent one.
SleepChoiceByTruth(sleepArg, rnd) ==
    IF sleepArg # <<>> /\ sleepArg[1] # 0 THEN sleepArg[1] ELSE rnd

\* The delay _get_response hands to the wrapper.
SleepChoice(sleepArg, rnd) == IF sleepArg # <<>> THEN sleepArg[1] ELSE rnd

\* self.doc = html.fromstring(content) if content else None, with self.response
\* already assigned: a parser error leaves the old tree in place.
ParseInto(resp, oldDoc) ==
    IF resp.body = EmptyBody
    THEN [raised |-> "None", doc |-> NoneVal]
    ELSE LET p == fromstring(resp.call, resp.body)
         IN  IF p.raised = "None"
             THEN [raised |-> "None", doc |-> p.tree]
             ELSE [raised |-> p.raised, doc |-> oldDoc]

\* NthScraper._get_response.
get_response(id, sleepArg, rnd, is_post, default, outcome, oldResp, oldDoc) ==
    LET method == IF is_post THEN "POST" ELSE "GET"
        r == request(method, <<SleepChoice(sleepArg, rnd)>>, default, outcome)
        resp == Response(id, r.status, r.body, FALSE)
        p == ParseInto(resp, oldDoc)
    IN  IF r.raised # "None"
        THEN [raised |-> r.raised, response |-> oldResp, doc |-> oldDoc,
              events |-> r.events]
        ELSE [raised |-> p.raised, response |-> resp, doc |-> p.doc,
              events |-> r.events]

\* NthScraper.get_from_local: open a session, read the file through it,
\* parse, close the response.  Nothing closes the session.
get_from_local(id, outcome, oldResp, oldDoc, open) ==
    LET resp == Response(id, outcome.status, outcome.body, FALSE)
        p == ParseInto(resp, oldDoc)
    IN  IF outcome.kind # "response"
        THEN [raised |-> FailureOf(outcome), response |-> oldResp, doc |-> oldDoc,
              localOpen |-> open + 1]
        ELSE IF p.raised # "None"
        THEN [raised |-> p.raised, response |-> resp, doc |-> p.doc,
              localOpen |-> open + 1]
        ELSE [raised |-> "None", response |-> [resp EXCEPT !.closed = TRUE],
              doc |-> p.doc, localOpen |-> open + 1]

(***************************************************************************)
(* Selectors.  A query string is modelled by its abstract syntax: the      *)
(* axis it tests, the tag scope and the value.                             *)
(***************************************************************************)
Modes == {"ById", "ByClass", "ByTag", "ByXPath", "ByAttribute"}
Tags == {"node()", "p", "div"}
RawPaths == {"//p", "//p | //p/text()", "//p/text()", "//[", "count(//p)", "count(//div)"}
Patterns == {"x", "p", "zzz", "id=x"} \cup RawPaths

\* The patterns and tag scopes tried with each mode.
PatternsFor(mode) ==
    CASE mode = "ById" -> {"x", "zzz"}
      [] mode = "ByClass" -> {"x"}
      [] mode = "ByTag" -> {"p", "zzz"}
      [] mode = "ByAttribute" -> {"id=x"}
      [] mode = "ByXPath" -> RawPaths \cup {"zzz"}

TagsFor(mode, pattern) ==
    IF mode = "ById" /\ pattern = "x" THEN Tags ELSE {"node()"}

Query(axis, tag, val) == [axis |-> axis, tag |-> tag, val |-> val]

\* selector_mode_values(by_mode, to_search, tag): the error label and the query.
selector_mode_values(by_mode, to_search, tag) ==
    CASE by_mode = "ById" ->
            [label |-> "Error finding by id", query |-> Query("id", tag, to_search)]
      [] by_mode = "ByClass" ->
            [label |-> "Error finding by class", query |-> Query("class", tag, to_search)]
      [] by_mode = "ByTag" ->
            [label |-> "Error finding by tag", query |-> Query("tag", to_search, "")]
      [] by_mode = "ByXPath" ->
            [label |-> "Error finding by xpath", query |-> Query("raw", "", to_search)]
      [] by_mode = "ByAttribute" ->
            [label |-> "Error finding by attribute", query |-> Query("attr", tag, to_search)]

(***************************************************************************)
(* The tree engine (element.xpath).  Its answer is an exception, a scalar  *)
(* (a number or a truth value) or a list of items in document order; an    *)
(* item is an element node or a text node of the tree that was queried.    *)
(***************************************************************************)
Item(kind, tree, i) == [kind |-> kind, tree |-> tree, idx |-> i]

Answer(raises, scalar, truthy, items) ==
    [raises |-> raises, scalar |-> scalar, truthy |-> truthy, items |-> items]

TagMatches(i, tag) == tag = "node()" \/ NodeTag[i] = tag

\* The elements of the tree whose index is in S, in document order.
ElementsIn(tree, S) ==
    LET pick == SelectSeq(NodeOrder, LAMBDA i : i \in NodesOf(tree.body) /\ i \in S)
    IN  [k \in DOMAIN pick |-> Item("elem", tree, pick[k])]

RECURSIVE WithText(_)
\* Each element followed by its text node.
WithText(elems) ==
    IF elems = <<>> THEN <<>>
    ELSE <<Head(elems), [Head(elems) EXCEPT !.kind = "text"]>> \o WithText(Tail(elems))

TextOnly(elems) == [k \in DOMAIN elems |-> [elems[k] EXCEPT !.kind = "text"]]

xpath(tree, ctx, q) ==
    LET all == DOMAIN NodeTag
        scoped == {i \in all : TagMatches(i, q.tag)}
        paragraphs == ElementsIn(tree, {i \in all : NodeTag[i] = "p"})
        list(items) == Answer(FALSE, FALSE, items # <<>>, items)
    IN  CASE q.axis = "id" ->
                list(ElementsIn(tree, {i \in scoped : ("id=" \o q.val) \in NodeAttrs[i]}))
          [] q.axis = "class" ->
                list(ElementsIn(tree, {i \in scoped : q.val \in NodeClasses[i]}))
          [] q.axis = "tag" ->
                list(ElementsIn(tree, {i \in all : NodeTag[i] = q.tag}))
          [] q.axis = "attr" ->
                list(ElementsIn(tree, {i \in scoped : q.val \in NodeAttrs[i]}))
          [] q.axis = "raw" /\ q.val = "//p" -> list(paragraphs)
          [] q.axis = "raw" /\ q.val = "//p | //p/text()" -> list(WithText(paragraphs))
          [] q.axis = "raw" /\ q.val = "//p/text()" -> list(TextOnly(paragraphs))
          [] q.axis = "raw" /\ q.val = "//[" -> Answer(TRUE, FALSE, FALSE, <<>>)
          [] q.axis = "raw" /\ q.val = "count(//p)" -> Answer(FALSE, TRUE, TRUE, <<>>)
          [] q.axis = "raw" /\ q.val \in {"count(//div)", "id=x"} ->
                Answer(FALSE, TRUE, FALSE, <<>>)
          [] OTHER ->
                \* a bare name is a child step from the context node
                list(ElementsIn(tree,
                    {i \in all : NodeParent[i] = ctx /\ NodeTag[i] = q.val}))

(***************************************************************************)
(* Handles.                                                                *)
(***************************************************************************)
Handle(item) == [kind |-> "Handle", tree |-> item.tree, idx |-> item.idx]

\* NthScraperElement.__init__: only an element node can be wrapped.
IsElement(item) == item.kind = "elem"

Found(raised, handles) == [raised |-> raised, handles |-> handles]

\* [NthScraperElement(element) for element in elements] if elements else [],
\* inside the try block: the exception, if any, is the one the block sees.
WrapAll(answer) ==
    IF answer.raises THEN Found("XPathError", <<>>)
    ELSE IF ~answer.truthy THEN Found("None", <<>>)
    ELSE IF answer.scalar THEN Found("TypeError", <<>>)
    ELSE IF \A k \in DOMAIN answer.items : IsElement(answer.items[k])
    THEN Found("None", [k \in DOMAIN answer.items |-> Handle(answer.items[k])])
    ELSE Found("ValueError", <<>>)

\* NthScraperElement(doc.xpath(xpath)[0]), inside the try block.
WrapFirst(answer) ==
    IF answer.raises THEN Found("XPathError", <<>>)
    ELSE IF answer.scalar THEN Found("TypeError", <<>>)
    ELSE IF answer.items = <<>> THEN Found("IndexError", <<>>)
    ELSE IF IsElement(answer.items[1]) THEN Found("None", <<Handle(answer.items[1])>>)
    ELSE Found("ValueError", <<>>)

\* NthScraperElement.find_elements: the handler of the try block logs a name
\* that is not bound (e), so it ends in NameError instead of returning [].
NthScraperElement_find_elements(h, by_mode, to_search, tag) ==
    LET sel == selector_mode_values(by_mode, to_search, tag)
        got == WrapAll(xpath(h.tree, h.idx, sel.query))
    IN  IF got.raised = "None" THEN got ELSE Found("NameError", <<>>)

\* doc = doc if doc else self.doc
ChooseDoc(docArg, selfDoc) == IF Truthy(docArg) THEN docArg ELSE selfDoc

\* The guard both document-scope operations start with.
NotLoaded(d) == d = NoneVal \/ LenOf(d) = 0

\* NthScraper.find_elements.
NthScraper_find_elements(selfDoc, by_mode, to_search, docArg, tag) ==
    LET sel == selector_mode_values(by_mode, to_search, tag)
        d == ChooseDoc(docArg, selfDoc)
        got == WrapAll(xpath(d, RootOf(d), sel.query))
    IN  IF NotLoaded(d) THEN Found("None", <<>>)
        ELSE IF got.raised = "None" THEN got
        ELSE Found("None", <<>>)

\* find_element without its guard: None.xpath raises inside the try block
\* and the handler turns that into ValueError.
NthScraper_find_element_unguarded(selfDoc, by_mode, to_search, docArg, tag) ==
    LET sel == selector_mode_values(by_mode, to_search, tag)
        d == ChooseDoc(docArg, selfDoc)
    IN  IF d = NoneVal THEN Found("ValueError", <<>>)
        ELSE LET got == WrapFirst(xpath(d, RootOf(d), sel.query))
             IN  IF got.raised = "None" THEN got ELSE Found("ValueError", <<>>)

\* NthScraper.find_element.
NthScraper_find_element(selfDoc, by_mode, to_search, docArg, tag) ==
    LET sel == selector_mode_values(by_mode, to_search, tag)
        d == ChooseDoc(docArg, selfDoc)
        got == WrapFirst(xpath(d, RootOf(d), sel.query))
    IN  IF NotLoaded(d) THEN Found("ReferenceError", <<>>)
        ELSE IF got.raised = "None" THEN got
        ELSE Found("ValueError", <<>>)

(***************************************************************************)
(* Text.  A Python string is a sequence of code points: 97 is "a", 98 is   *)
(* "b", 32 the space, 10 the line feed, 9 the tab, 11 the vertical tab and *)
(* 160 the no-break space.                                                 *)
(***************************************************************************)
TextAlphabet == {97, 98, 32, 11, 160}
FilterAlphabet == {97, 98, 32}

\* The code points str.strip() removes: those for which str.isspace() holds.
Whitespace ==
    (9 .. 13) \cup (28 .. 32) \cup {133, 160, 5760} \cup (8192 .. 8202)
        \cup {8232, 8233, 8239, 8287, 12288}

RECURSIVE StringsUpTo(_, _)
StringsUpTo(A, n) ==
    IF n = 0 THEN {<<>>}
    ELSE LET shorter == StringsUpTo(A, n - 1)
         IN  shorter \cup {Append(t, c) : t \in shorter, c \in A}

RECURSIVE ListsUpTo(_, _)
ListsUpTo(S, n) ==
    IF n = 0 THEN {<<>>}
    ELSE LET shorter == ListsUpTo(S, n - 1)
         IN  shorter \cup {Append(l, x) : l \in shorter, x \in S}

\* pattern in text
Occurs(pattern, text) ==
    \E i \in 1 .. (Len(text) - Len(pattern) + 1) :
        SubSeq(text, i, i + Len(pattern) - 1) = pattern

RECURSIVE ReplaceFirst(_, _)
\* text.replace(rep, "", 1)
ReplaceFirst(text, rep) ==
    IF rep = <<>> \/ Len(text) < Len(rep) THEN text
    ELSE IF SubSeq(text, 1, Len(rep)) = rep THEN SubSeq(text, Len(rep) + 1, Len(text))
    ELSE <<Head(text)>> \o ReplaceFirst(Tail(text), rep)

RECURSIVE Replace(_, _)
\* text.replace(rep, ""): one pass from the left over non-overlapping matches
Replace(text, rep) ==
    IF rep = <<>> \/ Len(text) < Len(rep) THEN text
    ELSE IF SubSeq(text, 1, Len(rep)) = rep
    THEN Replace(SubSeq(text, Len(rep) + 1, Len(text)), rep)
    ELSE <<Head(text)>> \o Replace(Tail(text), rep)

RECURSIVE ReplaceEach(_, _)
\* for rep in inner_text_filter: text = text.replace(rep, "")
ReplaceEach(text, filters) ==
    IF filters = <<>> THEN text
    ELSE ReplaceEach(Replace(text, Head(filters)), Tail(filters))

RECURSIVE LStrip(_)
LStrip(text) ==
    IF text # <<>> /\ Head(text) \in Whitespace THEN LStrip(Tail(text)) ELSE text

RECURSIVE RStrip(_)
RStrip(text) ==
    IF text # <<>> /\ text[Len(text)] \in Whitespace
    THEN RStrip(SubSeq(text, 1, Len(text) - 1))
    ELSE text

\* text.strip()
Strip(text) == RStrip(LStrip(text))

\* NthScraperElement.get_attribute("innerText", inner_text_filter) on a node
\* whose get_text() is text.
get_attribute_innerText(text, inner_text_filter) ==
    Strip(ReplaceEach(text, inner_text_filter))

\* The default of inner_text_filter, and the text of the documented example.
DefaultFilter == <<<<10>>, <<9>>>>
ExampleText == <<32, 10, 97, 9, 98, 32, 10>>

FilterLengths == {1, 2}
FilterStrings == {f \in StringsUpTo(FilterAlphabet, 2) : Len(f) \in FilterLengths}
Texts == StringsUpTo(TextAlphabet, MaxTextLen) \cup {ExampleText}
FilterLists == ListsUpTo(FilterStrings, MaxFilters) \cup {DefaultFilter}

(***************************************************************************)
(* The state machine of one session.  result records the last operation:   *)
(* its arguments, the exception it ended in ("None" when it returned), the *)
(* handles it returned and what the transport did during it.               *)
(***************************************************************************)
Selector(mode, pattern, tag) == [mode |-> mode, pattern |-> pattern, tag |-> tag]
NoSelector == Selector("", "", "")
NoOutcome == Outcome("", 0, EmptyBody)

Selectors ==
    {s \in {Selector(m, p, t) : m \in Modes, p \in Patterns, t \in Tags} :
        s.pattern \in PatternsFor(s.mode) /\ s.tag \in TagsFor(s.mode, s.pattern)}

\* The trees a caller can hand in as the doc argument: parsed by the caller,
\* so none of them is a tree of the session (their id is 0).
AlternateTrees == {Tree(0, b) : b \in ParseableBodies}

Record(op, raised, handles, events, sleepArg, outcome, selector, docArg, target) ==
    [op |-> op, raised |-> raised, handles |-> handles, events |-> events,
     sleepArg |-> sleepArg, outcome |-> outcome, selector |-> selector,
     docArg |-> docArg, target |-> target]

NoAttr == [text |-> <<>>, filters |-> <<>>, value |-> <<>>, called |-> FALSE]

Init ==
    /\ response = NoneVal
    /\ doc = NoneVal
    /\ calls = 0
    /\ localOpen = 0
    /\ result = Record("init", "None", <<>>, <<>>, <<>>, NoOutcome, NoSelector,
                       NoneVal, NoneVal)
    /\ attr = NoAttr

Fetch(is_post, sleepArg, rnd, default, outcome) ==
    LET r == get_response(calls + 1, sleepArg, rnd, is_post, default, outcome,
                          response, doc)
    IN  /\ calls < MaxCalls
        /\ calls' = calls + 1
        /\ response' = r.response
        /\ doc' = r.doc
        /\ result' = Record(IF is_post THEN "post" ELSE "get", r.raised, <<>>,
                            r.events, sleepArg, outcome, NoSelector, NoneVal, NoneVal)
        /\ UNCHANGED <<localOpen, attr>>

\* random.randint(1, 5) is evaluated only when sleep_seconds is None.
RandomDraws(sleepArg) ==
    IF sleepArg = <<>> THEN SessionSleepLo .. SessionSleepHi ELSE {SessionSleepLo}

\* NthScraper.get
Get ==
    \E sleepArg \in Optional(0 .. MaxSleep) :
    \E rnd \in RandomDraws(sleepArg),
       default \in WrapperSleepLo .. (WrapperSleepStop - 1), outcome \in TransportOutcomes :
        Fetch(FALSE, sleepArg, rnd, default, outcome)

\* NthScraper.post
Post ==
    \E sleepArg \in Optional(0 .. MaxSleep) :
    \E rnd \in RandomDraws(sleepArg),
       default \in WrapperSleepLo .. (WrapperSleepStop - 1), outcome \in TransportOutcomes :
        Fetch(TRUE, sleepArg, rnd, default, outcome)

\* NthScraper.get_from_local
GetFromLocal ==
    \E outcome \in LocalOutcomes :
        LET r == get_from_local(calls + 1, outcome, response, doc, localOpen)
        IN  /\ calls < MaxCalls
            /\ calls' = calls + 1
            /\ response' = r.response
            /\ doc' = r.doc
            /\ localOpen' = r.localOpen
            /\ result' = Record("get_from_local", r.raised, <<>>, <<>>, <<>>, outcome,
                                NoSelector, NoneVal, NoneVal)
            /\ UNCHANGED attr

\* NthScraper.find_elements
FindElements ==
    \E sel \in Selectors, docArg \in {NoneVal} \cup AlternateTrees :
        LET r == NthScraper_find_elements(doc, sel.mode, sel.pattern, docArg, sel.tag)
        IN  /\ result' = Record("find_elements", r.raised, r.handles, <<>>, <<>>,
                                NoOutcome, sel, docArg, NoneVal)
            /\ UNCHANGED <<response, doc, calls, localOpen, attr>>

\* NthScraper.find_element
FindElement ==
    \E sel \in Selectors, docArg \in {NoneVal} \cup AlternateTrees :
        LET r == NthScraper_find_element(doc, sel.mode, sel.pattern, docArg, sel.tag)
        IN  /\ result' = Record("find_element", r.raised, r.handles, <<>>, <<>>,
                                NoOutcome, sel, docArg, NoneVal)
            /\ UNCHANGED <<response, doc, calls, localOpen, attr>>

\* NthScraperElement.find_elements, on a handle the last operation returned
ElementFindElements ==
    \E k \in DOMAIN result.handles, sel \in Selectors :
        LET h == result.handles[k]
            r == NthScraperElement_find_elements(h, sel.mode, sel.pattern, sel.tag)
        IN  /\ result' = Record("element.find_elements", r.raised, r.handles, <<>>,
                                <<>>, NoOutcome, sel, NoneVal, h)
            /\ UNCHANGED <<response, doc, calls, localOpen, attr>>

Next ==
    \/ Get
    \/ Post
    \/ GetFromLocal
    \/ FindElements
    \/ FindElement
    \/ ElementFindElements

Spec == Init /\ [][Next]_vars

(***************************************************************************)
(* get_attribute("innerText", ...) as a machine of its own: the node text  *)
(* and the filter list are chosen at the start, the call is one step.      *)
(***************************************************************************)
InitText ==
    /\ response = NoneVal
    /\ doc = NoneVal
    /\ calls = 0
    /\ localOpen = 0
    /\ result = Record("init", "None", <<>>, <<>>, <<>>, NoOutcome, NoSelector,
                       NoneVal, NoneVal)
    /\ \E text \in Texts, filters \in FilterLists :
           attr = [text |-> text, filters |-> filters, value |-> <<>>, called |-> FALSE]

\* NthScraperElement.get_attribute("innerText", filters)
GetAttribute ==
    /\ ~attr.called
    /\ attr' = [attr EXCEPT !.value = get_attribute_innerText(attr.text, attr.filters),
                            !.called = TRUE]
    /\ UNCHANGED <<response, doc, calls, localOpen, result>>

NextText == GetAttribute

SpecText == InitText /\ [][NextText]_vars

(***************************************************************************)
(* Properties.                                                             *)
(***************************************************************************)
DocumentOps == {"find_elements", "find_element"}
FetchOps == {"get", "post"}

\* The engine's answer to the selector of the last operation, asked of tree
\* at context node ctx.
AnswerFor(tree, ctx) ==
    xpath(tree, ctx,
          selector_mode_values(result.selector.mode, result.selector.pattern,
                               result.selector.tag).query)

ZeroMatches(answer) == ~answer.raises /\ ~answer.scalar /\ answer.items = <<>>

\* C1: when the engine raises on the translated query, the handle's
\* find_elements returns an empty sequence and raises nothing.
C1_ElementFindAllSwallowsEngineFailure ==
    (/\ result.op = "element.find_elements"
     /\ AnswerFor(result.target.tree, result.target.idx).raises)
        => (result.raised = "None" /\ result.handles = <<>>)

\* C2: the session's response and tree always come from the same call: no
\* tree without a response, no tree for an empty body, the tree of a
\* parseable body is the parse of that body made in the response's call, and
\* a session query returns only nodes of the current response's tree.
C2_ResponseAndTreeFromSameCall ==
    /\ response = NoneVal => doc = NoneVal
    /\ response # NoneVal =>
          /\ response.body = EmptyBody => doc = NoneVal
          /\ response.body \in ParseableBodies => doc # NoneVal
          /\ doc # NoneVal => doc = Tree(response.call, response.body)
    /\ (result.op \in DocumentOps /\ result.docArg = NoneVal /\ response # NoneVal) =>
          \A k \in DOMAIN result.handles : result.handles[k].tree.id = response.call

\* C3: with no tree in the session and no alternate tree supplied,
\* find_elements returns an empty sequence without raising and find_element
\* fails with ReferenceError, whatever the selector.
C3_NoTreeFindAllEmptyFindReferenceError ==
    (result.op \in DocumentOps /\ doc = NoneVal /\ result.docArg = NoneVal) =>
        /\ result.handles = <<>>
        /\ result.op = "find_elements" => result.raised = "None"
        /\ result.op = "find_element" => result.raised = "ReferenceError"

\* C3 witness: find_element on a session whose last fetch had an empty body.
C3_Witness ==
    /\ result.op = "find_element"
    /\ result.docArg = NoneVal
    /\ result.raised = "ReferenceError"
    /\ response # NoneVal
    /\ response.body = EmptyBody
    /\ doc = NoneVal

\* C4: on any parsed session tree, a query with zero matches makes
\* find_elements return an empty sequence and find_element fail with
\* ValueError; ReferenceError is raised only when the session has no tree.
C4_ZeroMatchesIsNotFound ==
    (result.op \in DocumentOps /\ result.docArg = NoneVal /\ doc # NoneVal) =>
        /\ ZeroMatches(AnswerFor(doc, RootOf(doc))) =>
              /\ result.handles = <<>>
              /\ result.op = "find_elements" => result.raised = "None"
              /\ result.op = "find_element" => result.raised = "ValueError"
        /\ result.raised # "ReferenceError"

\* C5: with an alternate tree supplied, the query runs against that tree:
\* the outcome is the one the alternate tree's matches give, and every handle
\* returned wraps a node of the alternate tree.
C5_AlternateTreeIsTheOneQueried ==
    (result.op \in DocumentOps /\ result.docArg # NoneVal) =>
        /\ \A k \in DOMAIN result.handles : result.handles[k].tree = result.docArg
        /\ result.raised # "ReferenceError"

\* C6: when get_from_local has ended, on any path, the session it opened for
\* the local file has been closed.
C6_LocalSessionClosedWhenCallEnds ==
    result.op = "get_from_local" => localOpen = 0

\* What the transport contract calls a failure: a status that is not 2xx, or
\* no response.
TransportFailed(outcome) ==
    \/ outcome.kind = "conn_error"
    \/ outcome.kind = "response" /\ ~(200 <= outcome.status /\ outcome.status < 300)

\* C7: a get or post whose transport fails (a status that is not 2xx, or a
\* connection failure) raises, and the session's response and tree are what
\* they were before the call: neither is the one of this call.
C7_TransportFailureLeavesSessionUntouched ==
    (result.op \in FetchOps /\ TransportFailed(result.outcome)) =>
        /\ result.raised \in {"HTTPError", "ConnectionError"}
        /\ response = NoneVal \/ response.call # calls
        /\ doc = NoneVal \/ doc.id # calls

\* C8 as stated: the value returned for innerText contains no occurrence of
\* any filter string and has no white space at either end.
C8_NoFilterStringRemains ==
    attr.called =>
        /\ \A k \in DOMAIN attr.filters : ~Occurs(attr.filters[k], attr.value)
        /\ attr.value = <<>> \/
              (Head(attr.value) \notin Whitespace
                  /\ attr.value[Len(attr.value)] \notin Whitespace)

\* C8 amended: the value has no white space at either end; when every filter
\* is a single character it contains no occurrence of any filter; and the
\* documented example yields "ab".
C8_TrimmedAndSingleCharFiltersGone ==
    attr.called =>
        /\ attr.value = <<>> \/
              (Head(attr.value) \notin Whitespace
                  /\ attr.value[Len(attr.value)] \notin Whitespace)
        /\ (\A k \in DOMAIN attr.filters : Len(attr.filters[k]) = 1) =>
              \A k \in DOMAIN attr.filters : ~Occurs(attr.filters[k], attr.value)
        /\ (attr.text = ExampleText /\ attr.filters = DefaultFilter) =>
              attr.value = <<97, 98>>

\* C8 witness: the documented example has been evaluated.
C8_Witness ==
    /\ attr.called
    /\ attr.text = ExampleText
    /\ attr.filters = DefaultFilter
    /\ attr.value = <<97, 98>>

\* C9: a get or post sleeps exactly once, before its one network call, for
\* the caller's sleep_seconds when given and otherwise for an integer in
\* [1, 5]; nothing else happens on the transport.
C9_ThrottleOnceBeforeTheOneRequest ==
    result.op \in FetchOps =>
        /\ Len(result.events) = 2
        /\ result.events[1].ev = "sleep"
        /\ result.events[2] = NetEvent(IF result.op = "post" THEN "POST" ELSE "GET")
        /\ result.sleepArg # <<>> => result.events[1].secs = result.sleepArg[1]
        /\ result.sleepArg = <<>> =>
              result.events[1].secs \in SessionSleepLo .. SessionSleepHi

\* C9 witness: a post asked to sleep 0 seconds slept 0 seconds and then
\* issued its request.
C9_Witness ==
    /\ result.op = "post"
    /\ result.sleepArg = <<0>>
    /\ result.events = <<SleepEvent(0), NetEvent("POST")>>

\* C10: on a loaded tree find_element succeeds exactly when find_elements
\* returns a non-empty sequence, and then returns its first handle.
C10_FindAgreesWithFindAll ==
    doc # NoneVal =>
        \A sel \in Selectors :
            LET one == NthScraper_find_element(doc, sel.mode, sel.pattern, NoneVal, sel.tag)
                all == NthScraper_find_elements(doc, sel.mode, sel.pattern, NoneVal, sel.tag)
            IN  /\ (one.raised = "None") <=> (all.handles # <<>>)
                /\ one.raised = "None" => one.handles[1] = all.handles[1]

====
